---- MODULE Spec2Model ----
(***************************************************************************)
(* State-machine model of the ClickHouse native-protocol session engine of *)
(* clickhouse-srv: src/src/lib.rs (the ClickHouseSession trait defaults,   *)
(* QueryState, CHContext and the loop of ClickHouseServer::run) together   *)
(* with the two collaborators the loop calls, Connection::read_packet and  *)
(* Cmd::apply, whose modules (connection.rs, cmd.rs) are declared in       *)
(* lib.rs but are not part of src/; those two are modelled from spec.md    *)
(* sections 4.2 - 4.4 and 7.                                               *)
(*                                                                         *)
(* Transport failures are modelled at packet granularity: read_packet may  *)
(* return an error (a malformed packet, a broken stream), and the dispatch *)
(* of a command that writes may fail as a whole with an I/O error before   *)
(* it has any effect; a dispatch that gets past that point has all its     *)
(* writes succeed.                                                         *)
(***************************************************************************)
EXTENDS Integers, Sequences, FiniteSets, TLC

VARIABLES
    session,      \* the backend (Arc<dyn ClickHouseSession>): which defaults it overrides
    policy,       \* the dispatcher's documented policy for Cancel in Idle
    pc,           \* position of run: start, read, match, apply, exec, done
    result,       \* what run returned
    ctx,          \* <<>> before CHContext::new, <<the CHContext>> after
    connection,   \* none, open, closed
    maybe_packet, \* the local maybe_packet of run: what read_packet returned last
    cmd,          \* the local cmd of run: the packet being dispatched
    apply_res,    \* what cmd.apply returned last
    wire,         \* the packets the client has sent so far, in arrival order
    stream,       \* the client's end of the stream: open, closed, broken
    cursor,       \* how many calls of read_packet have returned
    out,          \* the responses written to the client, in write order
    dispatchLog,  \* history: the packets handed to cmd.apply, in dispatch order
    cbLog,        \* history: the completed execute_query callbacks
    reset_in,     \* the QueryState a reset() under test was applied to
    inflight,     \* history: the queries whose execute_query was invoked and has not returned
    arrivedInExec,\* history: the Query packets that arrived while a callback was
                  \* running and whose own dispatch has not returned yet
    reset_once,   \* the QueryState after the first reset() of a reset() under test
    store,        \* two sessions side by side: the CHContext each run owns
    peerPc,       \* two sessions side by side: where each run is
    actor         \* two sessions side by side: the session that took the last step

\* The variables of the side specifications, which the session leaves alone.
sideVars == <<reset_once, store, peerPc, actor>>

vars == <<session, policy, pc, result, ctx, connection, maybe_packet, cmd,
          apply_res, wire, stream, cursor, out, dispatchLog, cbLog, reset_in,
          inflight, arrivedInExec, sideVars>>

----------------------------------------------------------------------------
(* Bounds of the model.                                                    *)

MaxPackets == 3
MaxWrites == 1

----------------------------------------------------------------------------
(* The backend: trait ClickHouseSession and its default methods.           *)

DefaultTcpProtocolVersion == 54428

\* A backend that overrides nothing: every method is the trait's default body.
\* overrides_version records whether the implementer supplied its own
\* dbms_tcp_protocol_version; the method returns a u64 either way.
DefaultSession ==
    [timezone |-> "UTC", tcp |-> DefaultTcpProtocolVersion,
     overrides_version |-> FALSE]

\* The backends of the model: the default one, and ones that override the
\* timezone (with a known zone, with an unknown one) or the tcp revision.
Sessions ==
    { [DefaultSession EXCEPT !.timezone = z] :
          z \in {"UTC", "Asia/Shanghai", "Mars/Olympus"} }
    \cup { [DefaultSession EXCEPT !.tcp = 54450, !.overrides_version = TRUE] }

dbms_tcp_protocol_version(s) == s.tcp

timezone(s) == s.timezone

\* str::parse::<Tz>: the names the zone database knows parse, others fail.
KnownZones == {"UTC", "Asia/Shanghai"}

TzParses(name) == name \in KnownZones

----------------------------------------------------------------------------
(* QueryState and CHContext.                                               *)

QueryIds == {"", "q1", "q2"}
Queries == {"", "SELECT 1", "SELECT 2"}

QueryStates ==
    [query_id : QueryIds, stage : 0..1, compression : 0..1, query : Queries,
     is_cancelled : BOOLEAN, is_connection_closed : BOOLEAN,
     is_empty : BOOLEAN, sent_all_data : BOOLEAN]

\* #[derive(Default)]
QueryState_default ==
    [query_id |-> "", stage |-> 0, compression |-> 0, query |-> "",
     is_cancelled |-> FALSE, is_connection_closed |-> FALSE,
     is_empty |-> FALSE, sent_all_data |-> FALSE]

\* Faulty variant of reset: sent_all_data is left as it was.
reset_KeepsSentAllData(s) ==
    [s EXCEPT !.stage = 0,
              !.is_cancelled = FALSE,
              !.is_connection_closed = FALSE,
              !.is_empty = FALSE]

\* Faulty variant of reset: compression is cleared with the other fields.
reset_ClearsCompression(s) ==
    [s EXCEPT !.stage = 0,
              !.compression = 0,
              !.is_cancelled = FALSE,
              !.is_connection_closed = FALSE,
              !.is_empty = FALSE,
              !.sent_all_data = FALSE]

\* Faulty variant of reset: the stage is flipped instead of cleared.
reset_FlipsStage(s) ==
    [s EXCEPT !.stage = 1 - s.stage,
              !.is_cancelled = FALSE,
              !.is_connection_closed = FALSE,
              !.is_empty = FALSE,
              !.sent_all_data = FALSE]

reset(s) ==
    [s EXCEPT !.stage = 0,
              !.is_cancelled = FALSE,
              !.is_connection_closed = FALSE,
              !.is_empty = FALSE,
              !.sent_all_data = FALSE]

\* Packets, and the value of an Option<HelloRequest> that is None.
Pkt(k, r, q, c, t) ==
    [kind |-> k, revision |-> r, query_id |-> q, compression |-> c, query |-> t]

NoPacket == Pkt("None", 0, "", 0, "")

\* Faulty variant of CHContext::new: the context starts with a Hello in place.
CHContext_new_WithHello(state) ==
    [state |-> state, client_revision |-> 0, hello |-> Pkt("Hello", 0, "", 0, "")]

\* Faulty variant of CHContext::new: the context starts with a client
\* revision already recorded.
CHContext_new_WithRevision(state) ==
    [state |-> state, client_revision |-> DefaultTcpProtocolVersion,
     hello |-> NoPacket]

CHContext_new(state) ==
    [state |-> state, client_revision |-> 0, hello |-> NoPacket]

----------------------------------------------------------------------------
(* Values of the session machine.                                          *)

\* What the client can put on the wire. A Malformed packet is one whose
\* bytes the codec cannot parse (a length prefix larger than what follows).
ClientRevisions == {54406, 54428}

ClientPackets ==
    { Pkt("Hello", r, "", 0, "") : r \in ClientRevisions }
    \cup { Pkt("Query", 0, "q1", 0, "SELECT 1"), Pkt("Query", 0, "q2", 1, "SELECT 2") }
    \cup { Pkt(k, 0, "", 0, "") : k \in {"Cancel", "Ping", "Data", "Malformed"} }

\* Result<()> of run, and of cmd.apply; at: the number of the read_packet
\* call whose result, or whose packet's dispatch, produced it (0: none yet).
NoResult == [kind |-> "none", code |-> "", at |-> 0]
Ok(n) == [kind |-> "Ok", code |-> "", at |-> n]
Err(c, n) == [kind |-> "Err", code |-> c, at |-> n]

\* Result<Option<Packet>> of read_packet.
Unset == [tag |-> "unset", code |-> "", packet |-> NoPacket]
ReadSome(p) == [tag |-> "Some", code |-> "", packet |-> p]
ReadNone == [tag |-> "None", code |-> "", packet |-> NoPacket]
ReadErr(c) == [tag |-> "Err", code |-> c, packet |-> NoPacket]

\* A response packet; seq: the arrival number of the packet whose dispatch
\* issued the write.
Resp(k, n, r, z) == [kind |-> k, seq |-> n, revision |-> r, timezone |-> z]

Ctx == ctx[1]

CountOut(k, n) ==
    Cardinality({ i \in 1..Len(out) : out[i].kind = k /\ out[i].seq = n })

----------------------------------------------------------------------------
(* The client and the transport.                                           *)

\* The client sends one more packet; it may do so at any time, also while a
\* query is executing. Nothing is sent on a socket the server has dropped.
ClientSend ==
    /\ pc # "done"
    /\ stream = "open"
    /\ Len(wire) < MaxPackets
    /\ \E p \in ClientPackets :
          /\ wire' = Append(wire, p)
          /\ arrivedInExec' = IF pc = "exec" /\ p.kind = "Query"
                              THEN arrivedInExec \cup {Len(wire) + 1}
                              ELSE arrivedInExec
    /\ UNCHANGED <<session, policy, pc, result, ctx, connection, maybe_packet,
                   cmd, apply_res, stream, cursor, out, dispatchLog, cbLog,
                   reset_in, inflight, sideVars>>

\* The client closes the socket cleanly, or the transport fails.
ClientEnd ==
    /\ pc # "done"
    /\ stream = "open"
    /\ stream' \in {"closed", "broken"}
    /\ UNCHANGED <<session, policy, pc, result, ctx, connection, maybe_packet,
                   cmd, apply_res, wire, cursor, out, dispatchLog, cbLog,
                   reset_in, inflight, arrivedInExec, sideVars>>

----------------------------------------------------------------------------
(* ClickHouseServer::run.                                                  *)

\* Faulty variant of the start of run: a timezone that does not parse is
\* ignored and the session set up all the same.
RunStart_IgnoresParseFailure ==
    /\ pc = "start"
    /\ ctx' = <<CHContext_new(QueryState_default)>>
    /\ connection' = "open"
    /\ pc' = "read"
    /\ UNCHANGED result
    /\ UNCHANGED <<session, policy, maybe_packet, cmd, apply_res, wire, stream,
                   cursor, out, dispatchLog, cbLog, reset_in, inflight, arrivedInExec, sideVars>>

\* let tz = session.timezone().parse()?; let mut ctx = CHContext::new(..);
\* let mut connection = Connection::new(stream, session, tz);
RunStart ==
    /\ pc = "start"
    /\ IF TzParses(timezone(session))
       THEN /\ ctx' = <<CHContext_new(QueryState_default)>>
            /\ connection' = "open"
            /\ pc' = "read"
            /\ UNCHANGED result
       ELSE /\ pc' = "done"
            /\ result' = Err("Timezone", 0)
            /\ UNCHANGED <<ctx, connection>>
    /\ UNCHANGED <<session, policy, maybe_packet, cmd, apply_res, wire, stream,
                   cursor, out, dispatchLog, cbLog, reset_in, inflight, arrivedInExec, sideVars>>

\* Connection::read_packet: true when a call made now would return; it
\* suspends the task while the stream is open and holds no unread packet.
read_packet_ready == cursor < Len(wire) \/ stream # "open"

\* Connection::read_packet: the next packet of the stream, None at its clean
\* end, an error on corrupt input or a failed transport.
read_packet ==
    IF cursor < Len(wire)
    THEN IF wire[cursor + 1].kind = "Malformed"
         THEN ReadErr("MalformedPacket")
         ELSE ReadSome(wire[cursor + 1])
    ELSE IF stream = "closed" THEN ReadNone ELSE ReadErr("Io")

\* Faulty variant of the loop: the next packet is also read while the
\* backend's callback of the previous one is still running.
AtLoopTop_ReadsWhileExecuting == pc \in {"read", "exec"}

\* The loop reads only at its top: after the previous command's apply returned.
AtLoopTop == pc = "read"

\* let maybe_packet = tokio::select! { res = connection.read_packet(&mut ctx) => res };
ReadPacket ==
    /\ AtLoopTop
    /\ read_packet_ready
    /\ maybe_packet' = read_packet
    /\ cursor' = cursor + 1
    /\ pc' = "match"
    /\ UNCHANGED <<session, policy, result, ctx, connection, cmd, apply_res,
                   wire, stream, out, dispatchLog, cbLog, reset_in, inflight, arrivedInExec, sideVars>>

\* Faulty variant of the match: a clean end of stream is returned as an error.
MatchPacket_NoneIsError ==
    /\ pc = "match"
    /\ CASE maybe_packet.tag \in {"Err", "None"} ->
                /\ pc' = "done"
                /\ result' = Err(IF maybe_packet.tag = "None" THEN "UnexpectedEof"
                                 ELSE maybe_packet.code, cursor)
                /\ connection' = "closed"
                /\ UNCHANGED cmd
         [] OTHER ->
                /\ pc' = "apply"
                /\ cmd' = maybe_packet.packet
                /\ UNCHANGED <<result, connection>>
    /\ UNCHANGED <<session, policy, ctx, maybe_packet, apply_res, wire, stream,
                   cursor, out, dispatchLog, cbLog, reset_in, inflight, arrivedInExec, sideVars>>

\* let packet = match maybe_packet? { Some(packet) => packet, None => return Ok(()) };
\* let mut cmd = Cmd::create(packet);
MatchPacket ==
    /\ pc = "match"
    /\ CASE maybe_packet.tag = "Err" ->
                /\ pc' = "done"
                /\ result' = Err(maybe_packet.code, cursor)
                /\ connection' = "closed"
                /\ UNCHANGED cmd
         [] maybe_packet.tag = "None" ->
                /\ pc' = "done"
                /\ result' = Ok(cursor)
                /\ connection' = "closed"
                /\ UNCHANGED cmd
         [] OTHER ->
                /\ pc' = "apply"
                /\ cmd' = maybe_packet.packet
                /\ UNCHANGED <<result, connection>>
    /\ UNCHANGED <<session, policy, ctx, maybe_packet, apply_res, wire, stream,
                   cursor, out, dispatchLog, cbLog, reset_in, inflight, arrivedInExec, sideVars>>

\* Faulty variant of the loop's back edge: the error of apply is dropped
\* and the loop goes on.
LoopAfterApply_IgnoresError(res) ==
    /\ apply_res' = res
    /\ pc' = "read" /\ UNCHANGED <<result, connection>>

\* Faulty variant of the loop: run returns Ok as soon as a dispatch succeeded.
LoopAfterApply_ReturnsAfterApply(res) ==
    /\ apply_res' = res
    /\ pc' = "done" /\ result' = res /\ connection' = "closed"

\* cmd.apply(&mut connection, &mut ctx).await?; and the loop's back edge.
LoopAfterApply(res) ==
    /\ apply_res' = res
    /\ IF res.kind = "Ok"
       THEN pc' = "read" /\ UNCHANGED <<result, connection>>
       ELSE pc' = "done" /\ result' = res /\ connection' = "closed"

----------------------------------------------------------------------------
(* Cmd::apply: the command dispatcher.                                     *)

\* Handshake: the revision the Hello response reports: the client's when the
\* backend declares no version, else the backend's. What the backend declares
\* is what dbms_tcp_protocol_version() returns, a u64: it is never absent.
ServerRevision(s, hello) ==
    LET declared == <<dbms_tcp_protocol_version(s)>>
    IN  IF declared = <<>> THEN hello.revision ELSE declared[1]

\* The packets legal in the session's state: Hello alone before the
\* handshake; Query and Ping in Idle, and Cancel when the policy ignores it.
Legal(p) ==
    IF Ctx.hello = NoPacket
    THEN p.kind = "Hello"
    ELSE \/ p.kind \in {"Query", "Ping"}
         \/ p.kind = "Cancel" /\ policy = "ignore"

\* A packet illegal in the current state: UnexpectedPacket, nothing written,
\* nothing handed to the backend.
ApplyUnexpected ==
    /\ pc = "apply"
    /\ ~Legal(cmd)
    /\ dispatchLog' = Append(dispatchLog, cmd)
    /\ LoopAfterApply(Err("UnexpectedPacket", cursor))
    /\ UNCHANGED <<session, policy, ctx, maybe_packet, cmd, wire, stream,
                   cursor, out, cbLog, reset_in, inflight, arrivedInExec, sideVars>>

\* The dispatch of a command that writes fails with an I/O error.
ApplyIoError ==
    /\ pc = "apply"
    /\ Legal(cmd)
    /\ cmd.kind \in {"Hello", "Ping", "Query"}
    /\ dispatchLog' = Append(dispatchLog, cmd)
    /\ LoopAfterApply(Err("Io", cursor))
    /\ arrivedInExec' = arrivedInExec \ {cursor}
    /\ UNCHANGED <<session, policy, ctx, maybe_packet, cmd, wire, stream,
                   cursor, out, cbLog, reset_in, inflight, sideVars>>

\* Hello: the handshake result is stored and the Hello response written.
ApplyHello ==
    /\ pc = "apply"
    /\ Legal(cmd)
    /\ cmd.kind = "Hello"
    /\ ctx' = <<[Ctx EXCEPT !.hello = cmd, !.client_revision = cmd.revision]>>
    /\ out' = Append(out, Resp("Hello", cursor, ServerRevision(session, cmd),
                               timezone(session)))
    /\ dispatchLog' = Append(dispatchLog, cmd)
    /\ LoopAfterApply(Ok(cursor))
    /\ UNCHANGED <<session, policy, maybe_packet, cmd, wire, stream, cursor,
                   cbLog, reset_in, inflight, arrivedInExec, sideVars>>

\* Faulty variant of the Ping dispatch: the stage of QueryState is advanced
\* as it is for a query.
ApplyPing_AdvancesStage ==
    /\ pc = "apply"
    /\ Legal(cmd)
    /\ cmd.kind = "Ping"
    /\ ctx' = <<[Ctx EXCEPT !.state.stage = 1]>>
    /\ out' = Append(out, Resp("Pong", cursor, 0, ""))
    /\ dispatchLog' = Append(dispatchLog, cmd)
    /\ LoopAfterApply(Ok(cursor))
    /\ UNCHANGED <<session, policy, maybe_packet, cmd, wire, stream,
                   cursor, cbLog, reset_in, inflight, arrivedInExec, sideVars>>

\* Ping: answered with Pong.
ApplyPing ==
    /\ pc = "apply"
    /\ Legal(cmd)
    /\ cmd.kind = "Ping"
    /\ out' = Append(out, Resp("Pong", cursor, 0, ""))
    /\ dispatchLog' = Append(dispatchLog, cmd)
    /\ LoopAfterApply(Ok(cursor))
    /\ UNCHANGED <<session, policy, ctx, maybe_packet, cmd, wire, stream,
                   cursor, cbLog, reset_in, inflight, arrivedInExec, sideVars>>

\* Cancel in Idle under the "ignore" policy: a no-op.
ApplyCancelIdle ==
    /\ pc = "apply"
    /\ Legal(cmd)
    /\ cmd.kind = "Cancel"
    /\ dispatchLog' = Append(dispatchLog, cmd)
    /\ LoopAfterApply(Ok(cursor))
    /\ UNCHANGED <<session, policy, ctx, maybe_packet, cmd, wire, stream,
                   cursor, out, cbLog, reset_in, inflight, arrivedInExec, sideVars>>

\* Query in Idle: QueryState is reset, then populated from the packet.
AcceptedQuery(state, p) ==
    [reset(state) EXCEPT !.query_id = p.query_id,
                         !.query = p.query,
                         !.compression = p.compression]

\* Query in Idle: the session goes to Executing and the backend's
\* execute_query is invoked; apply returns when the callback has.
ApplyQuery ==
    /\ pc = "apply"
    /\ Legal(cmd)
    /\ cmd.kind = "Query"
    /\ ctx' = <<[Ctx EXCEPT !.state = AcceptedQuery(Ctx.state, cmd)]>>
    /\ dispatchLog' = Append(dispatchLog, cmd)
    /\ pc' = "exec"
    /\ inflight' = inflight \cup {cursor}
    /\ UNCHANGED <<session, policy, result, connection, maybe_packet, cmd,
                   apply_res, wire, stream, cursor, out, cbLog, reset_in, arrivedInExec, sideVars>>

\* execute_query streams a block through the connection (a progress update
\* is a write like it, and is not told apart).
BackendWrite ==
    /\ pc = "exec"
    /\ ~Ctx.state.sent_all_data
    /\ CountOut("Data", cursor) + CountOut("Progress", cursor) < MaxWrites
    /\ out' = Append(out, Resp("Data", cursor, 0, ""))
    /\ UNCHANGED <<session, policy, pc, result, ctx, connection, maybe_packet,
                   cmd, apply_res, wire, stream, cursor, dispatchLog, cbLog,
                   reset_in, inflight, arrivedInExec, sideVars>>

\* execute_query sends the end-of-stream marker itself.
BackendEndOfStream ==
    /\ pc = "exec"
    /\ ~Ctx.state.sent_all_data
    /\ out' = Append(out, Resp("EndOfStream", cursor, 0, ""))
    /\ ctx' = <<[Ctx EXCEPT !.state.sent_all_data = TRUE]>>
    /\ UNCHANGED <<session, policy, pc, result, connection, maybe_packet, cmd,
                   apply_res, wire, stream, cursor, dispatchLog, cbLog,
                   reset_in, inflight, arrivedInExec, sideVars>>

\* What the dispatcher writes when the callback has returned: an Exception
\* for a backend error, then the end-of-stream marker unless already sent.
CompletionWrites(outcome) ==
    (IF outcome = "error" THEN <<Resp("Exception", cursor, 0, "")>> ELSE <<>>)
    \o (IF Ctx.state.sent_all_data THEN <<>>
        ELSE <<Resp("EndOfStream", cursor, 0, "")>>)

\* Faulty variant of the completion: the callback's error is returned from
\* apply (as by a ? on the call) instead of being reported to the client.
CallbackReturn_PropagatesError ==
    /\ pc = "exec"
    /\ \E outcome \in {"ok", "error"} :
          /\ out' = IF outcome = "error" THEN out
                    ELSE out \o CompletionWrites(outcome)
          /\ cbLog' = Append(cbLog, [seq |-> cursor, outcome |-> outcome])
          /\ ctx' = IF outcome = "error" THEN ctx
                    ELSE <<[Ctx EXCEPT !.state.sent_all_data = TRUE]>>
          /\ LoopAfterApply(IF outcome = "error" THEN Err("Backend", cursor)
                            ELSE Ok(cursor))
    /\ inflight' = inflight \ {cursor}
    /\ arrivedInExec' = arrivedInExec \ {cursor}
    /\ UNCHANGED <<session, policy, maybe_packet, cmd, wire, stream, cursor,
                   dispatchLog, reset_in, sideVars>>

\* execute_query returns, with success or with a client-facing error; the
\* dispatcher completes the query and the session is Idle again.
CallbackReturn ==
    /\ pc = "exec"
    /\ \E outcome \in {"ok", "error"} :
          /\ out' = out \o CompletionWrites(outcome)
          /\ cbLog' = Append(cbLog, [seq |-> cursor, outcome |-> outcome])
    /\ ctx' = <<[Ctx EXCEPT !.state.sent_all_data = TRUE]>>
    /\ LoopAfterApply(Ok(cursor))
    /\ inflight' = inflight \ {cursor}
    /\ arrivedInExec' = arrivedInExec \ {cursor}
    /\ UNCHANGED <<session, policy, maybe_packet, cmd, wire, stream, cursor,
                   dispatchLog, reset_in, sideVars>>

----------------------------------------------------------------------------
(* The session specification.                                              *)

Init ==
    /\ session \in Sessions
    /\ policy \in {"ignore", "reject"}
    /\ pc = "start"
    /\ result = NoResult
    /\ ctx = <<>>
    /\ connection = "none"
    /\ maybe_packet = Unset
    /\ cmd = NoPacket
    /\ apply_res = NoResult
    /\ wire = <<>>
    /\ stream = "open"
    /\ cursor = 0
    /\ out = <<>>
    /\ dispatchLog = <<>>
    /\ cbLog = <<>>
    /\ reset_in = QueryState_default
    /\ inflight = {}
    /\ arrivedInExec = {}
    /\ reset_once = QueryState_default
    /\ store = <<>>
    /\ peerPc = <<>>
    /\ actor = 0

SessionStep ==
    \/ RunStart
    \/ ReadPacket
    \/ MatchPacket
    \/ ApplyUnexpected
    \/ ApplyIoError
    \/ ApplyHello
    \/ ApplyPing
    \/ ApplyCancelIdle
    \/ ApplyQuery

Next ==
    \/ ClientSend
    \/ ClientEnd
    \/ SessionStep
    \/ BackendWrite
    \/ BackendEndOfStream
    \/ CallbackReturn

Spec == Init /\ [][Next]_vars

\* The session task is scheduled whenever it can take a step; nothing makes
\* the client send, or the backend's callback return.
LiveSpec == Spec /\ WF_vars(SessionStep)

----------------------------------------------------------------------------
(* QueryState::reset on its own, applied to every QueryState value.        *)

InitReset ==
    /\ reset_in \in QueryStates
    /\ ctx = <<CHContext_new(reset_in)>>
    /\ pc = "reset_call"
    /\ session = DefaultSession
    /\ policy = "ignore"
    /\ result = NoResult
    /\ connection = "open"
    /\ maybe_packet = Unset
    /\ cmd = NoPacket
    /\ apply_res = NoResult
    /\ wire = <<>>
    /\ stream = "open"
    /\ cursor = 0
    /\ out = <<>>
    /\ dispatchLog = <<>>
    /\ cbLog = <<>>
    /\ inflight = {}
    /\ arrivedInExec = {}
    /\ reset_once = QueryState_default
    /\ store = <<>>
    /\ peerPc = <<>>
    /\ actor = 0

\* ctx.state.reset()
ResetCall ==
    /\ pc = "reset_call"
    /\ ctx' = <<[Ctx EXCEPT !.state = reset(Ctx.state)]>>
    /\ pc' = "reset_done"
    /\ UNCHANGED <<session, policy, result, connection, maybe_packet, cmd,
                   apply_res, wire, stream, cursor, out, dispatchLog, cbLog,
                   reset_in, inflight, arrivedInExec, sideVars>>

\* ctx.state.reset() called a second time on the state the first call left.
ResetAgain ==
    /\ pc = "reset_done"
    /\ reset_once' = Ctx.state
    /\ ctx' = <<[Ctx EXCEPT !.state = reset(Ctx.state)]>>
    /\ pc' = "reset_twice"
    /\ UNCHANGED <<session, policy, result, connection, maybe_packet, cmd,
                   apply_res, wire, stream, cursor, out, dispatchLog, cbLog,
                   reset_in, inflight, arrivedInExec, store, peerPc, actor>>

NextReset ==
    \/ ResetCall
    \/ ResetAgain

SpecReset == InitReset /\ [][NextReset]_vars

----------------------------------------------------------------------------
(* Two sessions side by side: run entered once per connection, each call   *)
(* with its own locals; a dispatch is taken as one step of its session.    *)

\* The variables of the single-session specification.
soloVars == <<session, policy, pc, result, ctx, connection, maybe_packet, cmd,
              apply_res, wire, stream, cursor, out, dispatchLog, cbLog,
              reset_in, inflight, arrivedInExec, reset_once>>

\* The connections served at the same time, one task each.
Tasks == {1, 2}

\* Faulty variant of the context's place: one context for every session.
CtxSlot_Shared(i) == 1

\* let mut ctx = ...: a local of the call of run that serves connection i.
CtxSlot(i) == i

\* The context session i works on.
PairCtx(i) == store[CtxSlot(i)][1]

InitPair ==
    /\ store = [i \in Tasks |-> <<>>]
    /\ peerPc = [i \in Tasks |-> "start"]
    /\ actor = 0
    /\ session = DefaultSession
    /\ policy \in {"ignore", "reject"}
    /\ pc = "start"
    /\ result = NoResult
    /\ ctx = <<>>
    /\ connection = "none"
    /\ maybe_packet = Unset
    /\ cmd = NoPacket
    /\ apply_res = NoResult
    /\ wire = <<>>
    /\ stream = "open"
    /\ cursor = 0
    /\ out = <<>>
    /\ dispatchLog = <<>>
    /\ cbLog = <<>>
    /\ reset_in = QueryState_default
    /\ inflight = {}
    /\ arrivedInExec = {}
    /\ reset_once = QueryState_default

\* run of session i up to the loop: its context is created.
PairRunStart(i) ==
    /\ peerPc[i] = "start"
    /\ store' = [store EXCEPT ![CtxSlot(i)] = <<CHContext_new(QueryState_default)>>]
    /\ peerPc' = [peerPc EXCEPT ![i] = "idle"]
    /\ actor' = i
    /\ UNCHANGED soloVars

\* Whether packet p is legal for session i in its current state.
PairLegal(i, p) ==
    IF PairCtx(i).hello = NoPacket
    THEN p.kind = "Hello"
    ELSE \/ p.kind \in {"Query", "Ping"}
         \/ p.kind = "Cancel" /\ policy = "ignore"

\* Session i reads and dispatches a Hello: the handshake is recorded.
PairHello(i) ==
    /\ peerPc[i] = "idle"
    /\ \E p \in ClientPackets :
          /\ p.kind = "Hello"
          /\ PairLegal(i, p)
          /\ store' = [store EXCEPT ![CtxSlot(i)] =
                          <<[PairCtx(i) EXCEPT !.hello = p,
                                               !.client_revision = p.revision]>>]
    /\ actor' = i
    /\ UNCHANGED <<peerPc, soloVars>>

\* Session i reads and dispatches a Ping, or a Cancel in Idle that is ignored.
PairPingOrCancel(i) ==
    /\ peerPc[i] = "idle"
    /\ \E p \in ClientPackets :
          /\ p.kind \in {"Ping", "Cancel"}
          /\ PairLegal(i, p)
    /\ actor' = i
    /\ UNCHANGED <<store, peerPc, soloVars>>

\* Session i reads and dispatches a Query: its QueryState is reset and
\* populated, and the backend's callback starts.
PairQuery(i) ==
    /\ peerPc[i] = "idle"
    /\ \E p \in ClientPackets :
          /\ p.kind = "Query"
          /\ PairLegal(i, p)
          /\ store' = [store EXCEPT ![CtxSlot(i)] =
                          <<[PairCtx(i) EXCEPT
                                !.state = AcceptedQuery(PairCtx(i).state, p)]>>]
    /\ peerPc' = [peerPc EXCEPT ![i] = "exec"]
    /\ actor' = i
    /\ UNCHANGED soloVars

\* The callback of session i returns and its query is completed.
PairCallbackReturn(i) ==
    /\ peerPc[i] = "exec"
    /\ store' = [store EXCEPT ![CtxSlot(i)] =
                    <<[PairCtx(i) EXCEPT !.state.sent_all_data = TRUE]>>]
    /\ peerPc' = [peerPc EXCEPT ![i] = "idle"]
    /\ actor' = i
    /\ UNCHANGED soloVars

\* Session i ends: its stream ended or failed, or a packet was illegal.
PairEnd(i) ==
    /\ peerPc[i] = "idle"
    /\ peerPc' = [peerPc EXCEPT ![i] = "done"]
    /\ actor' = i
    /\ UNCHANGED <<store, soloVars>>

NextPair ==
    \E i \in Tasks :
        \/ PairRunStart(i)
        \/ PairHello(i)
        \/ PairPingOrCancel(i)
        \/ PairQuery(i)
        \/ PairCallbackReturn(i)
        \/ PairEnd(i)

SpecPair == InitPair /\ [][NextPair]_vars

----------------------------------------------------------------------------
(* The properties.                                                         *)

\* C1: after QueryState.reset() every field except query_id and query holds
\* its zero-value default: stage = 0, compression = 0 and the four flags
\* false. (Checked under SpecReset, over every QueryState value.)
C1_ResetRestoresDefaults ==
    pc = "reset_done" =>
        /\ Ctx.state.stage = 0
        /\ Ctx.state.compression = 0
        /\ Ctx.state.is_cancelled = FALSE
        /\ Ctx.state.is_connection_closed = FALSE
        /\ Ctx.state.is_empty = FALSE
        /\ Ctx.state.sent_all_data = FALSE

C3_CleanEndReturnsOk ==
    (maybe_packet.tag = "None" /\ pc # "match") =>
        /\ pc = "done"
        /\ result = Ok(cursor)
        /\ connection = "closed"

\* The stream ended cleanly after a handshake and a completed query.
C3_Witness ==
    /\ pc = "done"
    /\ result.kind = "Ok"
    /\ maybe_packet.tag = "None"
    /\ cbLog # <<>>

\* C4: an error returned by read_packet or by the dispatch of a command ends
\* run with that error; no packet is read and no command dispatched after it.
C4_TransportErrorTerminates ==
    /\ (maybe_packet.tag = "Err" /\ pc # "match") =>
           /\ pc = "done"
           /\ result = Err(maybe_packet.code, cursor)
           /\ Len(dispatchLog) = cursor - 1
    /\ apply_res.kind = "Err" =>
           /\ pc = "done"
           /\ result = apply_res
           /\ apply_res.at = cursor
           /\ Len(dispatchLog) = cursor

\* The dispatch of a command failed with an I/O error after the handshake,
\* with a packet of the client still unread.
C4_Witness ==
    /\ pc = "done"
    /\ apply_res = Err("Io", cursor)
    /\ cursor >= 2
    /\ cursor < Len(wire)

\* C5: packets are dispatched in arrival order, none skipped; a packet is
\* read only when the dispatch of the one before it has returned; responses
\* are written in the order of the packets whose dispatch issued them.
C5_SequentialInOrder ==
    /\ Len(dispatchLog) <= Len(wire)
    /\ dispatchLog = SubSeq(wire, 1, Len(dispatchLog))
    /\ pc = "match" => apply_res.at = cursor - 1
    /\ pc = "apply" =>
           /\ apply_res.at = cursor - 1
           /\ Len(dispatchLog) = cursor - 1
           /\ cmd = wire[cursor]
    /\ pc \in {"read", "exec"} => Len(dispatchLog) = cursor
    /\ pc = "read" => apply_res.at = cursor
    /\ \A i, j \in 1..Len(out) : i < j => out[i].seq <= out[j].seq
    /\ \A i \in 1..Len(out) : out[i].seq <= Len(dispatchLog)

\* The third packet is about to be dispatched, after a query that completed
\* and whose responses were written.
C5_Witness ==
    /\ pc = "apply"
    /\ cursor = 3
    /\ cbLog # <<>>
    /\ Len(out) >= 3

\* C6: if a Cancel packet arrives while the callback of a Query is running,
\* then is_cancelled becomes true while the callback is still running (or
\* the callback has completed by itself). (Checked under LiveSpec.)
C6_CancelSetsFlagWhileExecuting ==
    (pc = "exec" /\ cursor < Len(wire) /\ wire[cursor + 1].kind = "Cancel")
        ~> (pc # "exec" \/ Ctx.state.is_cancelled)

\* C7: the Hello response reports the client's revision when the backend
\* declares no version of its own, and the backend's tcp revision otherwise.
C7_HelloReportsRevision ==
    \A i \in 1..Len(out) :
        out[i].kind = "Hello" =>
            out[i].revision = IF session.overrides_version
                              THEN session.tcp
                              ELSE Ctx.hello.revision

\* C8: with a backend timezone that does not parse, run returns the error
\* before a context or a connection exists, with nothing read or written.
C8_BadTimezoneFailsAtStartup ==
    (~TzParses(timezone(session)) /\ pc # "start") =>
        /\ pc = "done"
        /\ result = Err("Timezone", 0)
        /\ ctx = <<>>
        /\ connection = "none"
        /\ cursor = 0
        /\ maybe_packet = Unset
        /\ dispatchLog = <<>>
        /\ out = <<>>

\* The timezone did not parse and run has returned, with a packet of the
\* client waiting on the socket.
C8_Witness ==
    /\ ~TzParses(timezone(session))
    /\ pc = "done"
    /\ wire # <<>>

C10_HandshakeFirstAndOnce ==
    /\ (dispatchLog # <<>> /\ dispatchLog[1].kind # "Hello") =>
           /\ pc = "done"
           /\ result = Err("UnexpectedPacket", 1)
           /\ connection = "closed"
           /\ Ctx.hello = NoPacket
           /\ out = <<>>
           /\ cbLog = <<>>
    /\ pc = "exec" => Ctx.hello # NoPacket
    /\ cbLog # <<>> => dispatchLog[1].kind = "Hello"
    /\ (ctx # <<>> /\ Ctx.hello # NoPacket) =>
           (dispatchLog # <<>> /\ Ctx.hello = dispatchLog[1])
    /\ Cardinality({ i \in 1..Len(out) : out[i].kind = "Hello" }) <= 1
    /\ \A i \in 2..Len(dispatchLog) :
           dispatchLog[i].kind = "Hello" =>
               (i = Len(dispatchLog) /\ apply_res.kind = "Err")

\* A Query arrived first, before any Hello, and the session ended with
\* UnexpectedPacket.
C10_Witness ==
    /\ pc = "done"
    /\ result = Err("UnexpectedPacket", 1)
    /\ dispatchLog[1].kind = "Query"

\* C11: at most one query is in flight per connection, and a Query packet that
\* arrived while the session was Executing is rejected: it never becomes the
\* packet of a running execute_query.
C11_QueryWhileExecutingRejected ==
    /\ Cardinality(inflight) <= 1
    /\ \A n \in arrivedInExec : n \notin inflight

\* C14: reset() leaves query_id, query and compression as they were and writes
\* only stage, is_cancelled, is_connection_closed, is_empty and sent_all_data:
\* a compression that was set before the reset is still set after it.
C14_ResetKeepsIdQueryCompression ==
    pc = "reset_done" =>
        /\ Ctx.state.query_id = reset_in.query_id
        /\ Ctx.state.query = reset_in.query
        /\ Ctx.state.compression = reset_in.compression
        /\ Ctx.state.stage = 0
        /\ Ctx.state.is_cancelled = FALSE
        /\ Ctx.state.is_connection_closed = FALSE
        /\ Ctx.state.is_empty = FALSE
        /\ Ctx.state.sent_all_data = FALSE

\* reset() ran on a state with compression set, a query id and a query text,
\* and with the five written fields away from their defaults.
C14_Witness ==
    /\ pc = "reset_done"
    /\ reset_in.compression = 1
    /\ reset_in.query_id = "q1"
    /\ reset_in.query = "SELECT 1"
    /\ reset_in.stage = 1
    /\ reset_in.is_cancelled
    /\ reset_in.is_connection_closed
    /\ reset_in.is_empty
    /\ reset_in.sent_all_data
    /\ Ctx.state.compression = 1

\* C17: reset() is idempotent: the state after a second reset equals the
\* state after the first, for every QueryState the first was applied to.
C17_ResetIdempotent ==
    pc = "reset_twice" => Ctx.state = reset_once

\* reset() ran twice on a state the first call changed.
C17_Witness ==
    /\ pc = "reset_twice"
    /\ reset_in.stage = 1
    /\ reset_in.sent_all_data
    /\ reset_once # reset_in
    /\ Ctx.state = reset_once

\* C16: a session's context starts with client_revision = 0, hello = None and
\* a QueryState of defaults; it is created once, when run starts, and it is
\* that one context every read_packet and every dispatch work on: there is no
\* context before, it is never created again, and what a dispatch recorded in
\* it (the accepted Hello) is still there at every later step.
C16_InitialContextCreatedOnce ==
    /\ [](/\ Len(ctx) <= 1
          /\ (ctx = <<>>) <=> (pc = "start" \/ result = Err("Timezone", 0))
          /\ (ctx # <<>> /\ dispatchLog = <<>>) =>
                 ctx = <<[state |-> [query_id |-> "", stage |-> 0,
                                     compression |-> 0, query |-> "",
                                     is_cancelled |-> FALSE,
                                     is_connection_closed |-> FALSE,
                                     is_empty |-> FALSE,
                                     sent_all_data |-> FALSE],
                          client_revision |-> 0,
                          hello |-> NoPacket]>>)
    /\ [][/\ (ctx = <<>> /\ ctx' # <<>>) => (pc = "start" /\ pc' = "read")
          /\ ctx # <<>> => ctx' # <<>>
          /\ (ctx # <<>> /\ Ctx.hello # NoPacket) =>
                 /\ ctx'[1].hello = Ctx.hello
                 /\ ctx'[1].client_revision = Ctx.client_revision
          /\ pc \in {"read", "match"} => ctx' = ctx]_vars

\* The session read its second packet with the context the Hello dispatch
\* had written to.
C16_Witness ==
    /\ pc = "apply"
    /\ cursor = 2
    /\ Len(dispatchLog) = 1
    /\ Ctx.hello = dispatchLog[1]
    /\ Ctx.client_revision # 0

\* C15: run is left only through a clean end of the stream (Ok) or an error
\* that is propagated (Err): it does not return while a packet is readable
\* and every dispatch succeeded. If the client's stream ends or fails, and
\* no callback of the backend runs forever, the session terminates.
C15_LoopLeavesOnlyByEndOrError ==
    /\ [](pc = "done" =>
            \/ /\ result = Err("Timezone", 0)
               /\ ctx = <<>>
            \/ /\ result = Ok(cursor)
               /\ maybe_packet = ReadNone
               /\ stream = "closed"
               /\ cursor = Len(wire) + 1
               /\ apply_res.kind # "Err"
            \/ /\ result = Err(maybe_packet.code, cursor)
               /\ maybe_packet.tag = "Err"
               /\ apply_res.kind # "Err"
            \/ /\ result = apply_res
               /\ result.kind = "Err"
               /\ maybe_packet.tag = "Some")
    /\ \/ <>[](pc = "exec")
       \/ (stream # "open") ~> (pc = "done")

\* The stream ended after three packets were dispatched, and run returned Ok.
C15_Witness ==
    /\ pc = "done"
    /\ result.kind = "Ok"
    /\ stream = "closed"
    /\ Len(dispatchLog) = MaxPackets
    /\ cbLog # <<>>

\* C12: the dispatch of a Ping received in Idle writes exactly one Pong,
\* leaves every field of QueryState as it was, and leaves the session in
\* Idle, at the top of the loop.
C12_PingAnsweredWithOnePong ==
    [][(pc = "apply" /\ cmd.kind = "Ping" /\ Legal(cmd) /\ pc' # pc) =>
           /\ out' = Append(out, Resp("Pong", cursor, 0, ""))
           /\ ctx'[1].state = Ctx.state
           /\ pc' = "read"]_vars

\* C12, amended: the dispatch of a Ping received in Idle leaves every field
\* of QueryState, and the rest of the context, as it was; unless the dispatch
\* fails with a transport error, which ends the session with that error and
\* nothing written, it writes exactly one Pong and the session stays in Idle.
C12_PingKeepsQueryState ==
    [][(pc = "apply" /\ cmd.kind = "Ping" /\ Legal(cmd) /\ pc' # pc) =>
           /\ ctx' = ctx
           /\ apply_res'.kind \in {"Ok", "Err"}
           /\ apply_res'.kind = "Ok" =>
                  /\ out' = Append(out, Resp("Pong", cursor, 0, ""))
                  /\ pc' = "read"
                  /\ result' = NoResult
           /\ apply_res'.kind = "Err" =>
                  /\ out' = out
                  /\ pc' = "done"
                  /\ result' = Err("Io", cursor)]_vars

\* A Ping that followed a query was answered with a Pong, with the fields
\* the query had set still in QueryState.
C12_Witness ==
    /\ pc = "read"
    /\ cmd.kind = "Ping"
    /\ apply_res = Ok(cursor)
    /\ out # <<>>
    /\ out[Len(out)] = Resp("Pong", cursor, 0, "")
    /\ cbLog # <<>>
    /\ Ctx.state.query_id = "q1"

\* C13: each connection has its own context: whatever step a session takes
\* (start, a dispatch with its reset, the return of its callback, its end),
\* the QueryState, client_revision and hello of the other session's context
\* are what they were before the step.
C13_SessionsDoNotShareContext ==
    [][\A i \in Tasks : actor' # i => store'[CtxSlot(i)] = store[CtxSlot(i)]]_vars

\* Both sessions are executing a query, each with its own handshake and its
\* own QueryState, and the second was the last to step.
C13_Witness ==
    /\ actor = 2
    /\ peerPc[1] = "exec"
    /\ peerPc[2] = "exec"
    /\ PairCtx(1).state.query_id = "q1"
    /\ PairCtx(2).state.query_id = "q2"
    /\ PairCtx(1).client_revision # PairCtx(2).client_revision

====
